---- MODULE Spec2Model ----
(***************************************************************************)
(* Grade computation and ranking engine of the school management app:      *)
(* Result.save (accounts/models.py), the two ranking passes and the        *)
(* handlers that trigger them (accounts/views/teacher.py, views/admin.py). *)
(*                                                                         *)
(* Numbers: every mark is an integer number of thousandths of a mark       *)
(* (90 marks = 90 * Milli), so that round(x, 2) is a real conversion.      *)
(* Grade points are integers in tenths (4.5 = 45).  Python floats are      *)
(* modelled as exact decimals; round() is round-half-even.                 *)
(***************************************************************************)
EXTENDS Integers, Sequences, FiniteSets, TLC

\* ------------------------------------------------------------------ bounds
NumStudents == 3
NumSubjects == 2
MaxOps == 2

Students == 1..NumStudents
Subjects == 1..NumSubjects

\* ------------------------------------------------------------ static data
Milli == 10 * 100
Marks(n) == n * Milli

None == "None"
\* Promotion is only open in August, the last month of term "3": the handlers
\* are modelled at that date, with term "2" as a past term of the session.
Terms == {"2", "3"}
CurrentTerm == "3"

\* SchoolClass rows of the deployment (a slice of level_mappings).
Classes == {"Primary 5", "JSS 1", "JSS 2", "SS 3"}

SchoolClassSection(cls) ==
    CASE cls = "Nursery 1" -> "Nursery"
      [] cls = "Primary 5" -> "Primary"
      [] cls = "JSS 1" -> "Junior"
      [] cls = "JSS 2" -> "Junior"
      [] cls = "SS 3" -> "Senior"

LevelOrder(cls) ==
    CASE cls = "Primary 5" -> 10
      [] cls = "JSS 1" -> 11
      [] cls = "JSS 2" -> 12
      [] cls = "SS 3" -> 16

\* ClassSection rows: (school_class, suffix, session).
CurrentSections ==
    { [school_class |-> "JSS 1", suffix |-> "A", session |-> "current"],
      [school_class |-> "JSS 1", suffix |-> "B", session |-> "current"],
      [school_class |-> "JSS 2", suffix |-> "A", session |-> "current"],
      [school_class |-> "Primary 5", suffix |-> "A", session |-> "current"] }

\* promote_students creates, for every section of the current session, the
\* section of the same class and suffix in the next session.
NextSections == { [s EXCEPT !.session = "next"] : s \in CurrentSections }

Sections == CurrentSections \cup NextSections

NoSection == [school_class |-> None, suffix |-> None, session |-> None]

\* The sections a teacher of the current session is assigned to: those above and
\* one Nursery and one Senior section.
TaughtSections ==
    CurrentSections \cup
        { [school_class |-> "Nursery 1", suffix |-> "A", session |-> "current"],
          [school_class |-> "SS 3", suffix |-> "A", session |-> "current"] }

\* ------------------------------------------------------------ Result rows
NoGradePoint == 0 - 1

Keys == Students \X Subjects \X Terms

\* A Result instance as Result(student=..., subject=..., ...) constructs it.
NewResult ==
    [ exists |-> FALSE,
      ca |-> 0, test_1 |-> 0, test_2 |-> 0, exam |-> 0,
      test |-> 0, homework |-> 0, classwork |-> 0,
      nursery_primary_exam |-> 0, total_marks |-> 0,
      total_score |-> 0, grade |-> "", grade_point |-> NoGradePoint,
      description |-> "",
      subject_position |-> "", class_position |-> "", class_position_gp |-> "",
      remarks |-> "" ]

\* ------------------------------------------------------------- variables
VARIABLES
    student,    \* Student rows: current_class, current_section, is_active
    enrolled,   \* StudentSubject rows: <<student, subject, term>>
    results,    \* Result rows by <<student, subject, term>>
    lastOp,     \* the handler that returned last, its arguments and outcome
    ops,        \* number of handlers run
    req,        \* the update_result requests in flight: position and local data
    lock,       \* the database file's locks: SHARED holders, RESERVED holder
    call,       \* a function applied on its own: its name and arguments
    ret         \* ... and what it returned

vars == <<student, enrolled, results, lastOp, ops, req, lock, call, ret>>

\* A Primary table that took over the Junior bands and grade points.
primary_with_junior_bands(total) ==
    IF total >= Marks(90) THEN <<"A+", 40, "Distinction">>
    ELSE IF total >= Marks(80) THEN <<"A", 35, "Excellent">>
    ELSE IF total >= Marks(70) THEN <<"B", 30, "Good">>
    ELSE IF total >= Marks(60) THEN <<"C", 25, "Above Average">>
    ELSE IF total >= Marks(50) THEN <<"D", 20, "Average">>
    ELSE IF total >= Marks(40) THEN <<"E", 15, "Average">>
    ELSE <<"F", 10, "Poor">>

\* A Junior table whose lowest pass band starts above 40.
junior_e_above_40(total) ==
    IF total >= Marks(90) THEN <<"A+", 40, "Distinction">>
    ELSE IF total >= Marks(80) THEN <<"A", 35, "Excellent">>
    ELSE IF total >= Marks(70) THEN <<"B", 30, "Good">>
    ELSE IF total >= Marks(60) THEN <<"C", 25, "Above Average">>
    ELSE IF total >= Marks(50) THEN <<"D", 20, "Average">>
    ELSE IF total > Marks(40) THEN <<"E", 15, "Average">>
    ELSE <<"F", 10, "Poor">>

\* A Senior table whose top band starts above 90.
senior_a1_above_90(total) ==
    IF total > Marks(90) THEN <<"A1", 50, "Distinction">>
    ELSE IF total >= Marks(85) THEN <<"B2", 45, "Excellent">>
    ELSE IF total >= Marks(80) THEN <<"B3", 40, "Very Good">>
    ELSE IF total >= Marks(70) THEN <<"C4", 35, "Good">>
    ELSE IF total >= Marks(60) THEN <<"C5", 30, "Above Avg.">>
    ELSE IF total >= Marks(50) THEN <<"C6", 25, "Average">>
    ELSE IF total >= Marks(45) THEN <<"D7", 20, "Below Avg.">>
    ELSE IF total >= Marks(40) THEN <<"E8", 15, "Fair">>
    ELSE <<"F9", 10, "Fail">>

\* --------------------------------------------------------- Result.save
GradeNursery(total) ==
    IF total >= Marks(95) THEN <<"A+", NoGradePoint, "Distinction">>
    ELSE IF total >= Marks(90) THEN <<"A", NoGradePoint, "Excellent">>
    ELSE IF total >= Marks(85) THEN <<"B+", NoGradePoint, "Very Good">>
    ELSE IF total >= Marks(80) THEN <<"B", NoGradePoint, "Good">>
    ELSE IF total >= Marks(70) THEN <<"C+", NoGradePoint, "Credit">>
    ELSE IF total >= Marks(65) THEN <<"C", NoGradePoint, "Average">>
    ELSE IF total >= Marks(60) THEN <<"D", NoGradePoint, "Fair">>
    ELSE IF total >= Marks(50) THEN <<"E", NoGradePoint, "Pass">>
    ELSE <<"F9", NoGradePoint, "Fail">>

GradePrimary(total) ==
    IF total >= Marks(95) THEN <<"A+", NoGradePoint, "Distinction">>
    ELSE IF total >= Marks(90) THEN <<"A", NoGradePoint, "Excellent">>
    ELSE IF total >= Marks(85) THEN <<"B+", NoGradePoint, "Very Good">>
    ELSE IF total >= Marks(80) THEN <<"B", NoGradePoint, "Good">>
    ELSE IF total >= Marks(70) THEN <<"C+", NoGradePoint, "Credit">>
    ELSE IF total >= Marks(65) THEN <<"C", NoGradePoint, "Average">>
    ELSE IF total >= Marks(60) THEN <<"D", NoGradePoint, "Fair">>
    ELSE IF total >= Marks(50) THEN <<"E", NoGradePoint, "Pass">>
    ELSE <<"F9", NoGradePoint, "Fail">>

GradeJunior(total) ==
    IF total >= Marks(90) THEN <<"A+", 40, "Distinction">>
    ELSE IF total >= Marks(80) THEN <<"A", 35, "Excellent">>
    ELSE IF total >= Marks(70) THEN <<"B", 30, "Good">>
    ELSE IF total >= Marks(60) THEN <<"C", 25, "Above Average">>
    ELSE IF total >= Marks(50) THEN <<"D", 20, "Average">>
    ELSE IF total >= Marks(40) THEN <<"E", 15, "Average">>
    ELSE <<"F", 10, "Poor">>

GradeSenior(total) ==
    IF total >= Marks(90) THEN <<"A1", 50, "Distinction">>
    ELSE IF total >= Marks(85) THEN <<"B2", 45, "Excellent">>
    ELSE IF total >= Marks(80) THEN <<"B3", 40, "Very Good">>
    ELSE IF total >= Marks(70) THEN <<"C4", 35, "Good">>
    ELSE IF total >= Marks(60) THEN <<"C5", 30, "Above Avg.">>
    ELSE IF total >= Marks(50) THEN <<"C6", 25, "Average">>
    ELSE IF total >= Marks(45) THEN <<"D7", 20, "Below Avg.">>
    ELSE IF total >= Marks(40) THEN <<"E8", 15, "Fair">>
    ELSE <<"F9", 10, "Fail">>

\* section = student.current_class.section if student.current_class else None
AgeSectionOf(stu, st) ==
    IF stu[st].current_class = None THEN None
    ELSE SchoolClassSection(stu[st].current_class)

TotalScore(row, section) ==
    IF section = "Nursery" THEN row.total_marks
    ELSE IF section = "Primary"
        THEN row.test + row.homework + row.classwork + row.nursery_primary_exam
    ELSE row.ca + row.test_1 + row.test_2 + row.exam

GradeOf(total, section) ==
    IF section = "Nursery" THEN GradeNursery(total)
    ELSE IF section = "Primary" THEN GradePrimary(total)
    ELSE IF section = "Junior" THEN GradeJunior(total)
    ELSE GradeSenior(total)

\* Result.save: the derived fields, then the row is stored.
ResultSave(row, section) ==
    LET total == TotalScore(row, section)
        g == GradeOf(total, section)
    IN [row EXCEPT !.exists = TRUE, !.total_score = total,
                   !.grade = g[1], !.grade_point = g[2], !.description = g[3]]

\* -------------------------------------------------------------- ordinals
get_ordinal_suffix(n) ==
    IF 10 <= n % 100 /\ n % 100 <= 20 THEN "th"
    ELSE IF n % 10 = 1 THEN "st"
    ELSE IF n % 10 = 2 THEN "nd"
    ELSE IF n % 10 = 3 THEN "rd"
    ELSE "th"

\* A position string whose suffix looks at the last digit only.
position_by_last_digit(rank) ==
    ToString(rank) \o
        (IF rank % 10 = 1 THEN "st"
         ELSE IF rank % 10 = 2 THEN "nd"
         ELSE IF rank % 10 = 3 THEN "rd"
         ELSE "th")

\* f"{rank}{suffix}" with the inline suffix expression of the ranking passes.
PositionString(rank) ==
    ToString(rank) \o
        (IF 10 <= rank % 100 /\ rank % 100 <= 20 THEN "th"
         ELSE IF rank % 10 = 1 THEN "st"
         ELSE IF rank % 10 = 2 THEN "nd"
         ELSE IF rank % 10 = 3 THEN "rd"
         ELSE "th")

\* ---------------------------------------------------------------- round
\* round(num / den, 2) for num/den in thousandths; the result is in hundredths.
Round2(num, den) ==
    LET h == num \div (10 * den)
        r == num % (10 * den)
    IN IF 2 * r < 10 * den THEN h
       ELSE IF 2 * r > 10 * den THEN h + 1
       ELSE IF h % 2 = 0 THEN h ELSE h + 1

\* A function as an explicit table: evaluated once, when it is built, rather than
\* at every application.
Table(f) == f @@ f

\* ------------------------------------------------------ sorting, ranking
\* sorted(xs, key=..., reverse=True): stable, descending by key.
RECURSIVE SortedDesc(_, _)
SortedDesc(xs, key) ==
    IF xs = <<>> THEN <<>>
    ELSE LET front == SortedDesc(SubSeq(xs, 1, Len(xs) - 1), key)
             x == xs[Len(xs)]
             n == Cardinality({i \in 1..Len(front) : key[front[i]] >= key[x]})
         IN SubSeq(front, 1, n) \o <<x>> \o SubSeq(front, n + 1, Len(front))

\* A walk that never reuses the previous rank: every element gets its index.
IndexRank(xs, key, i) == i

\* The walk "if key != prev: rank = idx; prev = key" over a sorted sequence:
\* the rank given to the element at index i.
RECURSIVE WalkRank(_, _, _)
WalkRank(xs, key, i) ==
    IF i = 1 THEN 1
    ELSE IF key[xs[i]] # key[xs[i - 1]] THEN i
    ELSE WalkRank(xs, key, i - 1)

\* A set of naturals or tuples as a sequence in the database's default order.
RECURSIVE SeqOfStudents(_)
SeqOfStudents(S) ==
    IF S = {} THEN <<>>
    ELSE LET m == CHOOSE x \in S : \A y \in S : x <= y
         IN <<m>> \o SeqOfStudents(S \ {m})

RECURSIVE SumOver(_, _)
SumOver(S, f) ==
    IF S = {} THEN 0
    ELSE LET x == CHOOSE y \in S : TRUE
         IN f[x] + SumOver(S \ {x}, f)

\* ------------------------------------------------------- ranking passes
\* A roster that forgets current_section=section.
roster_of_every_student(stu, sec) == Students

\* Student.objects.filter(current_section=section)
Roster(stu, sec) == {s \in Students : stu[s].current_section = sec}

\* subject ids of the StudentSubject rows of the roster for (session, term)
SubjectIds(enr, students, term) ==
    {sub \in Subjects : \E s \in students : <<s, sub, term>> \in enr}

\* A filter that forgets subject__id__in=subject_ids.
results_of_any_subject(res, students, subject_ids, term) ==
    {k \in students \X Subjects \X {term} : res[k].exists}

\* Result.objects.filter(student__in=students, session, term, subject__id__in=subject_ids)
PassResults(res, students, subject_ids, term) ==
    {k \in students \X subject_ids \X {term} : res[k].exists}

\* sorted(subject_results, key=lambda r: r.total_score, reverse=True), as students
SortedSubjectResults(res, rows, sub, term) ==
    LET group == {k[1] : k \in {q \in rows : q[2] = sub}}
    IN SortedDesc(SeqOfStudents(group),
                  Table([x \in group |-> res[<<x, sub, term>>].total_score]))

\* A walk in which a row that already holds the rank it shares with another row
\* gives way by one place.
rank_yielding_ties(res, sorted_results, sub, term, s) ==
    LET score == Table([x \in Students |-> Round2(res[<<x, sub, term>>].total_score, 1)])
        rank == WalkRank(sorted_results, score,
                         CHOOSE i \in 1..Len(sorted_results) : sorted_results[i] = s)
        tied == \E i \in 1..Len(sorted_results) :
                    sorted_results[i] # s /\ score[sorted_results[i]] = score[s]
    IN IF tied /\ res[<<s, sub, term>>].subject_position = PositionString(rank)
       THEN rank + 1
       ELSE rank

\* The rank the walk gives student s in its subject group.
SubjectRankOf(res, sorted_results, sub, term, s) ==
    WalkRank(sorted_results,
             Table([x \in Students |-> Round2(res[<<x, sub, term>>].total_score, 1)]),
             CHOOSE i \in 1..Len(sorted_results) : sorted_results[i] = s)

update_subject_positions(stu, enr, res, st, term) ==
    LET sec == stu[st].current_section
        students == Roster(stu, sec)
        subject_ids == SubjectIds(enr, students, term)
        rows == PassResults(res, students, subject_ids, term)
        sorted == <<SortedSubjectResults(res, rows, 1, term)>>
                  \o [i \in 1..(NumSubjects - 1) |->
                        SortedSubjectResults(res, rows, i + 1, term)]
    IN IF sec = NoSection THEN res
       ELSE Table([k \in Keys |->
               IF k \in rows
               THEN [res[k] EXCEPT !.subject_position =
                        PositionString(SubjectRankOf(res, sorted[k[2]], k[2], term, k[1]))]
               ELSE res[k]])

\* student_results = [r for r in results if r.student_id == student.pk and r.total_score > 0]
StudentResults(res, rows, s) == {k \in rows : k[1] = s /\ res[k].total_score > 0}

\* round(sum(total_score) / len(student_results), 2), in hundredths
AvgMarks(res, rs) ==
    Round2(SumOver(rs, [k \in rs |-> res[k].total_score]), Cardinality(rs))

\* A common multiple of every possible len(student_results).
RECURSIVE Factorial(_)
Factorial(n) == IF n <= 1 THEN 1 ELSE n * Factorial(n - 1)
DenLcm == Factorial(NumSubjects)

\* avg_gp = sum(present grade_points) / len(student_results), else 0.0.  The
\* quotient is kept exact as tenths * DenLcm.
AvgGp(res, rs) ==
    LET present == {k \in rs : res[k].grade_point # NoGradePoint}
    IN IF present # {}
       THEN (SumOver(present, [k \in present |-> res[k].grade_point]) * DenLcm)
                \div Cardinality(rs)
       ELSE 0

\* student_averages: for every roster student with student_results, the averages
StudentAverages(res, rows, students) ==
    LET avgd == {s \in students : StudentResults(res, rows, s) # {}}
    IN Table([s \in avgd |-> [avg_marks |-> AvgMarks(res, StudentResults(res, rows, s)),
                              avg_gp |-> AvgGp(res, StudentResults(res, rows, s))]])

\* section.school_class.section not in ['Nursery', 'Primary']
RanksGp(sec) == SchoolClassSection(sec.school_class) \notin {"Nursery", "Primary"}

\* A dense ranking: 1 + the number of distinct greater averages.
DenseRankOf(key, s) ==
    1 + Cardinality({key[t] : t \in {u \in DOMAIN key : key[u] > key[s]}})

\* the rank of student s after sorted(student_averages, key=..., reverse=True) and the walk
AverageRankOf(key, s) ==
    LET sorted == SortedDesc(SeqOfStudents(DOMAIN key), key)
    IN WalkRank(sorted, key, CHOOSE i \in 1..Len(sorted) : sorted[i] = s)

\* A class pass whose bulk_update also writes an empty subject_position.
class_pass_blanking_subject(stu, enr, res, sec, term) ==
    LET students == Roster(stu, sec)
        subject_ids == SubjectIds(enr, students, term)
        rows == PassResults(res, students, subject_ids, term)
        averages == StudentAverages(res, rows, students)
        by_marks == Table([s \in DOMAIN averages |-> averages[s].avg_marks])
        by_gp == Table([s \in DOMAIN averages |-> averages[s].avg_gp])
        class_position ==
            Table([s \in DOMAIN averages |-> PositionString(AverageRankOf(by_marks, s))])
        class_position_gp ==
            Table([s \in DOMAIN averages |-> PositionString(AverageRankOf(by_gp, s))])
    IN IF sec = NoSection \/ students = {} THEN res
       ELSE Table([k \in Keys |->
               IF k \in rows /\ res[k].total_score > 0
               THEN [res[k] EXCEPT
                       !.subject_position = "",
                       !.class_position = class_position[k[1]],
                       !.class_position_gp =
                           IF RanksGp(sec) THEN class_position_gp[k[1]] ELSE @]
               ELSE res[k]])

update_class_positions(stu, enr, res, sec, term) ==
    LET students == Roster(stu, sec)
        subject_ids == SubjectIds(enr, students, term)
        rows == PassResults(res, students, subject_ids, term)
        averages == StudentAverages(res, rows, students)
        by_marks == Table([s \in DOMAIN averages |-> averages[s].avg_marks])
        by_gp == Table([s \in DOMAIN averages |-> averages[s].avg_gp])
        class_position ==
            Table([s \in DOMAIN averages |-> PositionString(AverageRankOf(by_marks, s))])
        class_position_gp ==
            Table([s \in DOMAIN averages |-> PositionString(AverageRankOf(by_gp, s))])
    IN IF sec = NoSection \/ students = {} THEN res
       ELSE Table([k \in Keys |->
               IF k \in rows /\ res[k].total_score > 0
               THEN [res[k] EXCEPT
                       !.class_position = class_position[k[1]],
                       !.class_position_gp =
                           IF RanksGp(sec) THEN class_position_gp[k[1]] ELSE @]
               ELSE res[k]])

\* ------------------------------------------------------------- handlers
\* lastOp: the handler, its student (0: none), the student's section before and
\* after, the response, the term the passes ran for, and the sections each pass ran on.
Op(name, st, old, new, outcome, subj, cls) ==
    [op |-> name, student |-> st, old_section |-> old, section |-> new,
     outcome |-> outcome, term |-> CurrentTerm, subject_pass |-> subj, class_pass |-> cls]

\* A posted score field is <<>> (left empty) or <<v>>.
Given(f) == f # <<>>
Val(f) == f[1]
OutOfRange(f, hi) == Given(f) /\ ~(0 <= Val(f) /\ Val(f) <= hi)
Changes(f, old) == Given(f) /\ old # Val(f)
Posted(f, old) == IF Changes(f, old) THEN Val(f) ELSE old

EmptyForm ==
    [ total_marks |-> <<>>, test |-> <<>>, homework |-> <<>>, classwork |-> <<>>,
      nursery_primary_exam |-> <<>>, ca |-> <<>>, test_1 |-> <<>>, test_2 |-> <<>>,
      exam |-> <<>> ]

\* A posted string that float() cannot parse; its length keeps it apart from
\* the parsed values.
NotANumber == <<0, 0>>
Malformed(f) == Len(f) = 2

\* float(value) and the range check of one posted field: the exception raised
FieldError(f, hi) ==
    IF ~Given(f) THEN ""
    ELSE IF Malformed(f) THEN "ValueError"
    ELSE IF OutOfRange(f, hi) THEN "ValidationError"
    ELSE ""

\* Range checks that allow every exam field up to 100.
exam_checked_to_100(f, section) ==
    IF section = "Nursery" THEN << <<f.total_marks, Marks(100)>> >>
    ELSE IF section = "Primary"
        THEN << <<f.test, Marks(20)>>, <<f.homework, Marks(10)>>,
                <<f.classwork, Marks(10)>>, <<f.nursery_primary_exam, Marks(100)>> >>
    ELSE << <<f.ca, Marks(10)>>, <<f.test_1, Marks(10)>>,
            <<f.test_2, Marks(10)>>, <<f.exam, Marks(100)>> >>

\* the posted fields of one subject in the order the loop body handles them
FieldChecks(f, section) ==
    IF section = "Nursery" THEN << <<f.total_marks, Marks(100)>> >>
    ELSE IF section = "Primary"
        THEN << <<f.test, Marks(20)>>, <<f.homework, Marks(10)>>,
                <<f.classwork, Marks(10)>>, <<f.nursery_primary_exam, Marks(60)>> >>
    ELSE << <<f.ca, Marks(10)>>, <<f.test_1, Marks(10)>>,
            <<f.test_2, Marks(10)>>, <<f.exam, Marks(70)>> >>

RECURSIVE FirstError(_)
FirstError(checks) ==
    IF checks = <<>> THEN ""
    ELSE IF FieldError(Head(checks)[1], Head(checks)[2]) # ""
    THEN FieldError(Head(checks)[1], Head(checks)[2])
    ELSE FirstError(Tail(checks))

\* the exception the loop body raises for one subject ("": none)
ErrorOf(f, section) == FirstError(FieldChecks(f, section))

\* does the loop body raise?
Raises(f, section) == ErrorOf(f, section) # ""

\* result_updated after the loop body
ResultUpdated(row, f, section, remarks) ==
    \/ IF section = "Nursery" THEN Changes(f.total_marks, row.total_marks)
       ELSE IF section = "Primary"
           THEN \/ Changes(f.test, row.test)
                \/ Changes(f.homework, row.homework)
                \/ Changes(f.classwork, row.classwork)
                \/ Changes(f.nursery_primary_exam, row.nursery_primary_exam)
       ELSE \/ Changes(f.ca, row.ca)
            \/ Changes(f.test_1, row.test_1)
            \/ Changes(f.test_2, row.test_2)
            \/ Changes(f.exam, row.exam)
    \/ (remarks # "" /\ row.remarks # remarks)

\* the in-memory row after the loop body's assignments
Assigned(row, f, section, remarks) ==
    LET r == IF section = "Nursery"
                THEN [row EXCEPT !.total_marks = Posted(f.total_marks, @)]
             ELSE IF section = "Primary"
                THEN [row EXCEPT !.test = Posted(f.test, @),
                                 !.homework = Posted(f.homework, @),
                                 !.classwork = Posted(f.classwork, @),
                                 !.nursery_primary_exam = Posted(f.nursery_primary_exam, @)]
             ELSE [row EXCEPT !.ca = Posted(f.ca, @),
                              !.test_1 = Posted(f.test_1, @),
                              !.test_2 = Posted(f.test_2, @),
                              !.exam = Posted(f.exam, @)]
    IN IF remarks # "" THEN [r EXCEPT !.remarks = remarks] ELSE r

\* for subject in subjects: ... result.save(): the rows as stored when the loop
\* ends or raises, whether a row was saved, and whether it raised.
RECURSIVE SaveLoop(_, _, _, _, _, _)
SaveLoop(res, st, section, subs, form, remarks) ==
    IF subs = <<>> THEN [res |-> res, updates_made |-> FALSE, raised |-> FALSE, error |-> ""]
    ELSE LET sub == Head(subs)
             k == <<st, sub, CurrentTerm>>
         IN IF Raises(form[sub], section)
            THEN [res |-> res, updates_made |-> FALSE, raised |-> TRUE,
                  error |-> ErrorOf(form[sub], section)]
            ELSE LET upd == ResultUpdated(res[k], form[sub], section, remarks)
                     saved == ResultSave(Assigned(res[k], form[sub], section, remarks), section)
                     rest == SaveLoop(IF upd THEN [res EXCEPT ![k] = saved] ELSE res,
                                      st, section, Tail(subs), form, remarks)
                 IN [res |-> rest.res,
                     updates_made |-> upd \/ rest.updates_made,
                     raised |-> rest.raised,
                     error |-> rest.error]

\* the subjects of the student's StudentSubject rows of the term, ordered by id
EnrolledSubjects(enr, st) ==
    SeqOfStudents({sub \in Subjects : <<st, sub, CurrentTerm>> \in enr})

\* update_result with the two ranking calls moved out of the try block, so that
\* they also run after the loop raised.
ranking_after_error(stu, enr, res, st, form, remarks) ==
    LET sec == stu[st].current_section
        loop == SaveLoop(res, st, AgeSectionOf(stu, st), EnrolledSubjects(enr, st),
                         form, remarks)
    IN [res |-> update_class_positions(stu, enr,
                    update_subject_positions(stu, enr, loop.res, st, CurrentTerm),
                    sec, CurrentTerm),
        op |-> Op("update_result", st, sec, sec,
                  IF loop.raised
                  THEN IF loop.error = "ValueError" THEN "invalid format" ELSE "rejected"
                  ELSE IF loop.updates_made THEN "updated" ELSE "no changes",
                  NoSection, {})]

\* update_result without the update_class_positions call that follows the
\* subject pass.
subject_pass_only(stu, enr, res, st, form, remarks) ==
    LET sec == stu[st].current_section
        loop == SaveLoop(res, st, AgeSectionOf(stu, st), EnrolledSubjects(enr, st),
                         form, remarks)
    IN IF stu[st].current_class = None
       THEN [res |-> res, op |-> Op("update_result", st, sec, sec, "error", NoSection, {})]
       ELSE IF loop.raised
       THEN [res |-> loop.res,
             op |-> Op("update_result", st, sec, sec,
                       IF loop.error = "ValueError" THEN "invalid format" ELSE "rejected",
                       NoSection, {})]
       ELSE IF loop.updates_made
       THEN [res |-> update_subject_positions(stu, enr, loop.res, st, CurrentTerm),
             op |-> Op("update_result", st, sec, sec, "updated", sec, {sec})]
       ELSE [res |-> loop.res,
             op |-> Op("update_result", st, sec, sec, "no changes", NoSection, {})]

\* update_result, POST while the term is editable: the Result rows it leaves and
\* the response it gives.
UpdateResultOutcome(stu, enr, res, st, form, remarks) ==
    LET sec == stu[st].current_section
        loop == SaveLoop(res, st, AgeSectionOf(stu, st), EnrolledSubjects(enr, st),
                         form, remarks)
    IN IF stu[st].current_class = None
       THEN [res |-> res, op |-> Op("update_result", st, sec, sec, "error", NoSection, {})]
       ELSE IF loop.raised
       THEN [res |-> loop.res,
             op |-> Op("update_result", st, sec, sec,
                       IF loop.error = "ValueError" THEN "invalid format" ELSE "rejected",
                       NoSection, {})]
       ELSE IF loop.updates_made
       THEN [res |-> update_class_positions(stu, enr,
                        update_subject_positions(stu, enr, loop.res, st, CurrentTerm),
                        sec, CurrentTerm),
             op |-> Op("update_result", st, sec, sec, "updated", sec, {sec})]
       ELSE [res |-> loop.res,
             op |-> Op("update_result", st, sec, sec, "no changes", NoSection, {})]

update_result(st, form, remarks) ==
    /\ student[st].current_section \in TaughtSections
    /\ LET out == UpdateResultOutcome(student, enrolled, results, st, form, remarks)
       IN /\ results' = out.res
          /\ lastOp' = out.op
    /\ UNCHANGED <<student, enrolled>>

\* teacher_manage_subjects, POST action=assign_subjects
teacher_manage_subjects(st, subs) ==
    /\ student[st].current_section \in CurrentSections
    /\ student[st].is_active
    /\ subs # {}
    /\ enrolled' = {e \in enrolled : ~(e[1] = st /\ e[3] = CurrentTerm)}
                      \cup {<<st, sub, CurrentTerm>> : sub \in subs}
    /\ lastOp' = Op("teacher_manage_subjects", st, student[st].current_section,
                    student[st].current_section, "ok", NoSection, {})
    /\ UNCHANGED <<student, results>>

\* An assignment that ranks the section joined but not the section left.
assign_new_section_only(st, sec) ==
    LET old_section == student[st].current_section
        stu == [student EXCEPT ![st].current_section = sec]
        r1 == update_subject_positions(stu, enrolled, results, st, CurrentTerm)
        r2 == update_class_positions(stu, enrolled, r1, sec, CurrentTerm)
    IN IF student[st].current_class # sec.school_class
       THEN /\ sec \in CurrentSections
            /\ lastOp' = Op("assign_student_to_section", st, old_section, sec,
                            "rejected", NoSection, {})
            /\ UNCHANGED <<student, enrolled, results>>
       ELSE /\ sec \in CurrentSections
            /\ student' = stu
            /\ results' = r2
            /\ lastOp' = Op("assign_student_to_section", st, old_section, sec, "ok", sec,
                            IF old_section # NoSection THEN {sec, old_section} ELSE {sec})
            /\ UNCHANGED enrolled

assign_student_to_section(st, sec) ==
    LET old_section == student[st].current_section
        stu == [student EXCEPT ![st].current_section = sec]
        r1 == update_subject_positions(stu, enrolled, results, st, CurrentTerm)
        r2 == update_class_positions(stu, enrolled, r1, sec, CurrentTerm)
        r3 == IF old_section # NoSection /\ old_section # sec
              THEN update_class_positions(stu, enrolled, r2, old_section, CurrentTerm)
              ELSE r2
    IN IF student[st].current_class # sec.school_class
       THEN /\ sec \in CurrentSections
            /\ lastOp' = Op("assign_student_to_section", st, old_section, sec,
                            "rejected", NoSection, {})
            /\ UNCHANGED <<student, enrolled, results>>
       ELSE /\ sec \in CurrentSections
            /\ student' = stu
            /\ results' = r3
            /\ lastOp' = Op("assign_student_to_section", st, old_section, sec, "ok", sec,
                            IF old_section # NoSection THEN {sec, old_section} ELSE {sec})
            /\ UNCHANGED enrolled

\* A removal that clears the student's positions and section but leaves the old
\* section's class positions as they were.
remove_without_class_pass(st) ==
    LET old_section == student[st].current_section
    IN /\ old_section # NoSection
       /\ student' = [student EXCEPT ![st].current_section = NoSection]
       /\ results' = [k \in Keys |->
                        IF k[1] = st /\ k[3] = CurrentTerm /\ results[k].exists
                        THEN [results[k] EXCEPT !.subject_position = "",
                                                !.class_position = ""]
                        ELSE results[k]]
       /\ lastOp' = Op("remove_student_from_section", st, old_section, NoSection,
                       "ok", NoSection, {old_section})
       /\ UNCHANGED enrolled

remove_student_from_section(st) ==
    LET old_section == student[st].current_section
        cleared == Table([k \in Keys |->
                      IF k[1] = st /\ k[3] = CurrentTerm /\ results[k].exists
                      THEN [results[k] EXCEPT !.subject_position = "", !.class_position = ""]
                      ELSE results[k]])
        stu == [student EXCEPT ![st].current_section = NoSection]
    IN IF old_section # NoSection
       THEN /\ student' = stu
            /\ results' = update_class_positions(stu, enrolled, cleared, old_section,
                                                 CurrentTerm)
            /\ lastOp' = Op("remove_student_from_section", st, old_section, NoSection,
                            "ok", NoSection, {old_section})
            /\ UNCHANGED enrolled
       ELSE /\ lastOp' = Op("remove_student_from_section", st, old_section, NoSection,
                            "rejected", NoSection, {})
            /\ UNCHANGED <<student, enrolled, results>>

\* teacher_view_class_results: both passes run before the page is built
teacher_view_class_results(sec, term) ==
    LET r1 == update_class_positions(student, enrolled, results, sec, term)
        first_student == IF Roster(student, sec) = {} THEN 0
                         ELSE CHOOSE s \in Roster(student, sec) :
                                  \A t \in Roster(student, sec) : s <= t
    IN /\ results' = IF first_student = 0 THEN r1
                     ELSE update_subject_positions(student, enrolled, r1, first_student, term)
       /\ lastOp' = [Op("teacher_view_class_results", first_student, sec, sec, "ok",
                        IF first_student = 0 THEN NoSection ELSE sec, {sec})
                        EXCEPT !.term = term]
       /\ UNCHANGED <<student, enrolled>>

\* admin update_student: the posted class, section always cleared
update_student(st, cls, active) ==
    /\ student' = [student EXCEPT ![st] = [current_class |-> cls,
                                           current_section |-> NoSection,
                                           is_active |-> active]]
    /\ lastOp' = Op("update_student", st, student[st].current_section, NoSection,
                    "ok", NoSection, {})
    /\ UNCHANGED <<enrolled, results>>

\* SchoolClass.objects.filter(level_order__gt/lt=...).order_by(...).first()
NextClass(cls, action) ==
    LET cand == IF action = "promote"
                THEN {c \in Classes : LevelOrder(c) > LevelOrder(cls)}
                ELSE {c \in Classes : LevelOrder(c) < LevelOrder(cls)}
    IN IF cand = {} THEN None
       ELSE IF action = "promote"
       THEN CHOOSE c \in cand : \A d \in cand : LevelOrder(c) <= LevelOrder(d)
       ELSE CHOOSE c \in cand : \A d \in cand : LevelOrder(c) >= LevelOrder(d)

\* ClassSection.objects.filter(school_class=next_class, suffix=..., session=next_session).first()
MatchingSection(next_class, suffix) ==
    LET m == {x \in NextSections : x.school_class = next_class /\ x.suffix = suffix}
    IN IF m = {} THEN NoSection ELSE CHOOSE x \in m : TRUE

\* the loop body of promote_students for one student
Promoted(row, action) ==
    IF row.current_class = None \/ NextClass(row.current_class, action) = None THEN row
    ELSE [row EXCEPT !.current_class = NextClass(row.current_class, action),
                     !.current_section =
                         IF row.current_section # NoSection
                         THEN MatchingSection(NextClass(row.current_class, action),
                                              row.current_section.suffix)
                         ELSE NoSection]

\* admin promote_students, POST in August
promote_students(action, selected) ==
    LET ids == IF action = "promote_all"
               THEN {s \in Students : /\ student[s].is_active
                                       /\ student[s].current_class # None
                                       /\ student[s].current_class # "SS 3"}
               ELSE selected
        act == IF action = "promote_all" THEN "promote" ELSE action
        moved == [s \in Students |->
                    IF s \in ids THEN Promoted(student[s], act) ELSE student[s]]
    IN /\ student' = [s \in Students |->
                        IF moved[s].current_class = "SS 3" /\ moved[s].is_active
                        THEN [moved[s] EXCEPT !.is_active = FALSE]
                        ELSE moved[s]]
       /\ lastOp' = Op("promote_students", 0, NoSection, NoSection, action, NoSection, {})
       /\ UNCHANGED <<enrolled, results>>

\* ---------------------------------------------------------- specification
\* The marks a teacher posts: one exam mark per subject (65.004 rounds to 65.0;
\* 71 is above the 70 allowed for Junior and Senior exams).
ExamInputs == {<<>>, <<0>>, <<Marks(65) + 4>>, <<Marks(71)>>}

FormOf(e) ==
    [sub \in Subjects |->
        [EmptyForm EXCEPT !.exam = e[sub], !.nursery_primary_exam = e[sub],
                          !.total_marks = e[sub]]]

PostForms == {FormOf(e) : e \in [Subjects -> ExamInputs]}

\* The seeded school: every student registered in JSS 1, placed in JSS 1 A and
\* enrolled in every subject; then one score submission per student, in order.
JSS1A == [school_class |-> "JSS 1", suffix |-> "A", session |-> "current"]

SeedStudents ==
    [s \in Students |->
        [current_class |-> "JSS 1", current_section |-> JSS1A, is_active |-> TRUE]]

SeedEnrolled == {<<s, sub, CurrentTerm>> : s \in Students, sub \in Subjects}

SeedMarks == {<<Marks(50)>>, <<Marks(65)>>}

SeedForms == {FormOf(e) : e \in [Subjects -> SeedMarks]}

RECURSIVE Seeded(_, _)
Seeded(seed, n) ==
    IF n = 0
    THEN [res |-> Table([k \in Keys |-> NewResult]),
          op |-> Op("init", 0, NoSection, NoSection, "ok", NoSection, {})]
    ELSE UpdateResultOutcome(SeedStudents, SeedEnrolled, Seeded(seed, n - 1).res,
                             n, seed[n], "")

\* The two requests of the concurrent specification; request r posts for student r.
Requests == {1, 2}

IdleRequest ==
    [pc |-> "idle", form |-> FormOf([sub \in Subjects |-> <<>>]), todo |-> <<>>,
     row |-> NewResult, updates_made |-> FALSE, writes |-> <<>>, written |-> {}]

FreeLock == [shared |-> {}, reserved |-> 0]

NoCall == [fn |-> "none"]

Init ==
    /\ req = [r \in Requests |-> IdleRequest]
    /\ lock = FreeLock
    /\ call = NoCall
    /\ ret = NoCall
    /\ student = SeedStudents
    /\ enrolled = SeedEnrolled
    /\ \E seed \in [Students -> SeedForms] :
          /\ results = Seeded(seed, NumStudents).res
          /\ lastOp = Seeded(seed, NumStudents).op
    /\ ops = 0

Tick ==
    /\ ops < MaxOps
    /\ ops' = ops + 1
    /\ UNCHANGED <<req, lock, call, ret>>

\* One handler runs to completion per step.
UpdateResult ==
    \E st \in Students, form \in PostForms : Tick /\ update_result(st, form, "")

TeacherManageSubjects ==
    \E st \in Students, subs \in SUBSET Subjects : Tick /\ teacher_manage_subjects(st, subs)

AssignStudentToSection ==
    \E st \in Students, sec \in Sections : Tick /\ assign_student_to_section(st, sec)

RemoveStudentFromSection ==
    \E st \in Students : Tick /\ remove_student_from_section(st)

TeacherViewClassResults ==
    \E sec \in CurrentSections, term \in Terms : Tick /\ teacher_view_class_results(sec, term)

UpdateStudent ==
    \E st \in Students, cls \in Classes \cup {None}, active \in BOOLEAN :
        Tick /\ update_student(st, cls, active)

PromoteStudents ==
    \E action \in {"promote", "demote", "promote_all"}, selected \in SUBSET Students :
        Tick /\ promote_students(action, selected)

Next ==
    \/ UpdateResult
    \/ TeacherManageSubjects
    \/ AssignStudentToSection
    \/ RemoveStudentFromSection
    \/ TeacherViewClassResults
    \/ UpdateStudent
    \/ PromoteStudents

Spec == Init /\ [][Next]_vars

\* The teacher's score and subject pages alone.
NextScores ==
    \/ UpdateResult
    \/ TeacherManageSubjects
    \/ TeacherViewClassResults

SpecScores == Init /\ [][NextScores]_vars

\* The operations that move students between sections and classes.
NextRoster ==
    \/ AssignStudentToSection
    \/ RemoveStudentFromSection
    \/ UpdateStudent
    \/ PromoteStudents

SpecRoster == Init /\ [][NextRoster]_vars

\* Score submissions whose fields may also hold text that is not a number.
SubmitInputs == {<<>>, <<Marks(65) + 4>>, <<Marks(71)>>, NotANumber}

SubmitForms == {FormOf(e) : e \in [Subjects -> SubmitInputs]}

SubmitScores ==
    \E st \in Students, form \in SubmitForms : Tick /\ update_result(st, form, "")

SpecSubmit == Init /\ [][SubmitScores]_vars

\* ------------------------------------------- concurrent score submissions
\* Two update_result POSTs run in separate workers against the sqlite3 database
\* of settings.DATABASES.  Statements outside transaction.atomic() autocommit; a
\* ranking pass is one deferred transaction: its first SELECT takes SHARED, its
\* bulk_update takes RESERVED, its COMMIT needs every other SHARED released.
ConcurrentForms ==
    {FormOf([sub \in Subjects |-> IF sub = only THEN <<Marks(65) + 4>> ELSE <<>>]) :
        only \in Subjects}

InitConcurrent ==
    /\ student = SeedStudents
    /\ enrolled = SeedEnrolled
    /\ \E seed \in [Students -> SeedForms] :
          /\ results = Seeded(seed, NumStudents).res
          /\ lastOp = Seeded(seed, NumStudents).op
    /\ ops = 0
    /\ \E forms \in [Requests -> ConcurrentForms] :
          req = [r \in Requests |->
                   [IdleRequest EXCEPT !.pc = "loop", !.form = forms[r],
                                       !.todo = EnrolledSubjects(SeedEnrolled, r)]]
    /\ lock = FreeLock
    /\ call = NoCall
    /\ ret = NoCall

\* A writer that holds RESERVED and waits to commit keeps new readers out (PENDING).
Pending(r) == req[r].pc \in {"save_commit", "subject_commit", "class_commit"}
CanRead(r) == \A o \in Requests \ {r} : ~Pending(o)
CanReserve(r) == lock.reserved \in {0, r}
CanCommit(r) == lock.shared \subseteq {r}
Released(r) ==
    [shared |-> lock.shared \ {r},
     reserved |-> IF lock.reserved = r THEN 0 ELSE lock.reserved]

\* for subject in subjects: Result.objects.get(...), the range checks and the
\* assignments of one iteration; after the last one, `if updates_made:`.
LoopStep(r) ==
    /\ req[r].pc = "loop"
    /\ IF req[r].todo = <<>>
       THEN req' = [req EXCEPT ![r].pc = IF req[r].updates_made THEN "subject_read"
                                          ELSE "done"]
       ELSE LET sub == Head(req[r].todo)
                row == results[<<r, sub, CurrentTerm>>]
                section == AgeSectionOf(student, r)
            IN /\ CanRead(r)
               /\ req' = IF Raises(req[r].form[sub], section)
                         THEN [req EXCEPT ![r].pc = "done"]
                         ELSE IF ResultUpdated(row, req[r].form[sub], section, "")
                         THEN [req EXCEPT ![r].pc = "save_begin",
                                          ![r].row = Assigned(row, req[r].form[sub],
                                                              section, "")]
                         ELSE [req EXCEPT ![r].todo = Tail(@)]
    /\ UNCHANGED <<student, enrolled, results, lastOp, ops, lock, call, ret>>

\* result.save(): the autocommit statement waits for the write lock
SaveBegin(r) ==
    /\ req[r].pc = "save_begin"
    /\ CanRead(r)
    /\ lock.reserved = 0
    /\ lock' = [lock EXCEPT !.reserved = r]
    /\ req' = [req EXCEPT ![r].pc = "save_commit"]
    /\ UNCHANGED <<student, enrolled, results, lastOp, ops, call, ret>>

\* ... and commits every column of the row once the readers are gone
SaveCommit(r) ==
    /\ req[r].pc = "save_commit"
    /\ CanCommit(r)
    /\ results' = [results EXCEPT ![<<r, Head(req[r].todo), CurrentTerm>>] =
                       ResultSave(req[r].row, AgeSectionOf(student, r))]
    /\ lock' = Released(r)
    /\ req' = [req EXCEPT ![r].pc = "loop", ![r].todo = Tail(@),
                          ![r].updates_made = TRUE]
    /\ UNCHANGED <<student, enrolled, lastOp, ops, call, ret>>

\* update_subject_positions up to position_updates: the queries and the ranking
SubjectPassRead(r) ==
    /\ req[r].pc = "subject_read"
    /\ CanRead(r)
    /\ LET students == Roster(student, student[r].current_section)
           rows == PassResults(results, students,
                               SubjectIds(enrolled, students, CurrentTerm), CurrentTerm)
           ranked == update_subject_positions(student, enrolled, results, r, CurrentTerm)
       IN req' = [req EXCEPT ![r].pc = "subject_write",
                             ![r].writes = Table([k \in rows |-> ranked[k].subject_position])]
    /\ lock' = [lock EXCEPT !.shared = @ \cup {r}]
    /\ UNCHANGED <<student, enrolled, results, lastOp, ops, call, ret>>

\* bulk_update: RESERVED, or "database is locked" at once when another
\* connection holds it; the error ends the request in `except Exception`.
PassWrite(r, at, commit) ==
    /\ req[r].pc = at
    /\ IF CanReserve(r)
       THEN /\ lock' = [lock EXCEPT !.reserved = r]
            /\ req' = [req EXCEPT ![r].pc = commit]
       ELSE /\ lock' = Released(r)
            /\ req' = [req EXCEPT ![r].pc = "failed", ![r].writes = <<>>]
    /\ UNCHANGED <<student, enrolled, results, lastOp, ops, call, ret>>

SubjectPassWrite(r) == PassWrite(r, "subject_write", "subject_commit")

\* leaving transaction.atomic(): COMMIT
SubjectPassCommit(r) ==
    /\ req[r].pc = "subject_commit"
    /\ CanCommit(r)
    /\ results' = [k \in Keys |->
                     IF k \in DOMAIN req[r].writes
                     THEN [results[k] EXCEPT !.subject_position = req[r].writes[k]]
                     ELSE results[k]]
    /\ lock' = Released(r)
    /\ req' = [req EXCEPT ![r].pc = "class_read", ![r].writes = <<>>,
                          ![r].written = {}]
    /\ UNCHANGED <<student, enrolled, lastOp, ops, call, ret>>

\* update_class_positions up to position_updates
ClassPassRead(r) ==
    /\ req[r].pc = "class_read"
    /\ CanRead(r)
    /\ LET sec == student[r].current_section
           students == Roster(student, sec)
           rows == {k \in PassResults(results, students,
                                      SubjectIds(enrolled, students, CurrentTerm),
                                      CurrentTerm) : results[k].total_score > 0}
           ranked == update_class_positions(student, enrolled, results, sec, CurrentTerm)
       IN req' = [req EXCEPT ![r].pc = "class_write",
                             ![r].writes = Table([k \in rows |->
                                 <<ranked[k].class_position, ranked[k].class_position_gp>>])]
    /\ lock' = [lock EXCEPT !.shared = @ \cup {r}]
    /\ UNCHANGED <<student, enrolled, results, lastOp, ops, call, ret>>

ClassPassWrite(r) == PassWrite(r, "class_write", "class_commit")

ClassPassCommit(r) ==
    /\ req[r].pc = "class_commit"
    /\ CanCommit(r)
    /\ results' = [k \in Keys |->
                     IF k \in DOMAIN req[r].writes
                     THEN [results[k] EXCEPT !.class_position = req[r].writes[k][1],
                                             !.class_position_gp = req[r].writes[k][2]]
                     ELSE results[k]]
    /\ lock' = Released(r)
    /\ req' = [req EXCEPT ![r].pc = "done", ![r].writes = <<>>,
                          ![r].written = {}]
    /\ UNCHANGED <<student, enrolled, lastOp, ops, call, ret>>

NextConcurrent ==
    \/ \E r \in Requests : LoopStep(r)
    \/ \E r \in Requests : SaveBegin(r)
    \/ \E r \in Requests : SaveCommit(r)
    \/ \E r \in Requests : SubjectPassRead(r)
    \/ \E r \in Requests : SubjectPassWrite(r)
    \/ \E r \in Requests : SubjectPassCommit(r)
    \/ \E r \in Requests : ClassPassRead(r)
    \/ \E r \in Requests : ClassPassWrite(r)
    \/ \E r \in Requests : ClassPassCommit(r)

SpecConcurrent == InitConcurrent /\ [][NextConcurrent]_vars

\* ------------------------------------------- a batch write that fails
\* bulk_update sends position_updates in batches of at most BatchSize rows inside
\* the pass's transaction.atomic() block; the rows a batch wrote stay private to
\* the transaction until COMMIT.
BatchSize == 2

KeyIndex(k) == (k[1] - 1) * NumSubjects + k[2]

\* the next batch: the BatchSize rows of lowest index not yet written
NextBatch(q) ==
    LET remaining == DOMAIN q.writes \ q.written
    IN {k \in remaining :
           Cardinality({o \in remaining : KeyIndex(o) < KeyIndex(k)}) < BatchSize}

InBulkUpdate(q) == q.pc \in {"subject_commit", "class_commit"}

\* A failure that leaves the rows already written in place.
writes_kept(res, q) ==
    Table([k \in Keys |->
        IF k \notin q.written THEN res[k]
        ELSE IF q.pc = "subject_commit"
        THEN [res[k] EXCEPT !.subject_position = q.writes[k]]
        ELSE [res[k] EXCEPT !.class_position = q.writes[k][1],
                            !.class_position_gp = q.writes[k][2]]])

\* an exception leaves `with transaction.atomic():`: ROLLBACK discards the rows
\* the transaction wrote
rollback(res, q) == res

BatchWritten(r) ==
    /\ InBulkUpdate(req[r])
    /\ req[r].written # DOMAIN req[r].writes
    /\ req' = [req EXCEPT ![r].written = @ \cup NextBatch(req[r])]
    /\ UNCHANGED <<student, enrolled, results, lastOp, ops, lock, call, ret>>

\* the next batch raises: the pass ends in rollback and update_result in
\* `except Exception`
BatchFails(r) ==
    /\ InBulkUpdate(req[r])
    /\ req[r].written # DOMAIN req[r].writes
    /\ results' = rollback(results, req[r])
    /\ lock' = Released(r)
    /\ req' = [req EXCEPT ![r].pc = "failed", ![r].writes = <<>>, ![r].written = {}]
    /\ lastOp' = Op(IF req[r].pc = "subject_commit" THEN "update_subject_positions"
                    ELSE "update_class_positions",
                    r, student[r].current_section, student[r].current_section,
                    IF req[r].written = {} THEN "failed" ELSE "failed partway",
                    NoSection, {})
    /\ UNCHANGED <<student, enrolled, ops, call, ret>>

NextFailure ==
    \/ NextConcurrent
    \/ \E r \in Requests : BatchWritten(r)
    \/ \E r \in Requests : BatchFails(r)

SpecFailure == InitConcurrent /\ [][NextFailure]_vars

\* ------------------------------------------- functions applied on their own
\* The school as seeded, with no request in flight and no row stored.
Idle ==
    /\ req = [r \in Requests |-> IdleRequest]
    /\ lock = FreeLock
    /\ student = SeedStudents
    /\ enrolled = SeedEnrolled
    /\ results = Table([k \in Keys |-> NewResult])
    /\ lastOp = Op("init", 0, NoSection, NoSection, "ok", NoSection, {})
    /\ ops = 0

\* The ranks whose position strings are formed.
MaxRank == 120

InitOrdinal ==
    /\ Idle
    /\ \E n \in 1..MaxRank : call = [fn |-> "get_ordinal_suffix", n |-> n]
    /\ ret = NoCall

\* get_ordinal_suffix(n) and the f"{rank}{suffix}" of the passes for rank n
OrdinalReturn ==
    /\ call.fn = "get_ordinal_suffix"
    /\ ret = NoCall
    /\ ret' = [fn |-> call.fn, suffix |-> get_ordinal_suffix(call.n),
               position |-> PositionString(call.n)]
    /\ UNCHANGED <<student, enrolled, results, lastOp, ops, req, lock, call>>

SpecOrdinal == InitOrdinal /\ [][OrdinalReturn]_vars

\* Result.save applied to one row.  The totals drawn sit on every band edge of
\* the four tables and one thousandth below it.
BandEdges == {40, 45, 50, 60, 65, 70, 80, 85, 90, 95}

GradingTotals ==
    {0, Marks(100)} \cup {Marks(x) : x \in BandEdges} \cup {Marks(x) - 1 : x \in BandEdges}

Least(a, b) == IF a <= b THEN a ELSE b

\* a row of the section's kind whose components add up to total; a stale row was
\* last saved for a Junior student and still holds that grade and its components
RowWith(section, total, stale) ==
    LET base == IF stale
                THEN [NewResult EXCEPT !.exists = TRUE, !.ca = Marks(5), !.exam = Marks(45),
                                       !.test = Marks(5), !.total_marks = Marks(5),
                                       !.total_score = Marks(50), !.grade = "D",
                                       !.grade_point = 20, !.description = "Average"]
                ELSE NewResult
        first == Least(total, Marks(10))
        second == Least(total - first, Marks(10))
        third == Least(total - first - second, Marks(10))
    IN IF section = "Nursery" THEN [base EXCEPT !.total_marks = total]
       ELSE IF section = "Primary"
       THEN [base EXCEPT !.homework = first, !.classwork = second,
                         !.test = third + Least(total - first - second - third, Marks(10)),
                         !.nursery_primary_exam =
                             total - first - second - third
                                 - Least(total - first - second - third, Marks(10))]
       ELSE [base EXCEPT !.ca = first, !.test_1 = second, !.test_2 = third,
                         !.exam = total - first - second - third]

InitGrading ==
    /\ Idle
    /\ \E section \in {"Nursery", "Primary", "Junior", "Senior"},
          total \in GradingTotals, stale \in BOOLEAN :
          call = [fn |-> "Result.save", section |-> section,
                  row |-> RowWith(section, total, stale)]
    /\ ret = NoCall

SaveReturn ==
    /\ call.fn = "Result.save"
    /\ ret = NoCall
    /\ ret' = [fn |-> call.fn, row |-> ResultSave(call.row, call.section)]
    /\ UNCHANGED <<student, enrolled, results, lastOp, ops, req, lock, call>>

SpecGrading == InitGrading /\ [][SaveReturn]_vars

\* ------------------------------------------- totals in every age section
\* One student per age section in turn, each in the A section of the class.
TotalsClass(s) ==
    CASE s % 4 = 1 -> "Nursery 1"
      [] s % 4 = 2 -> "Primary 5"
      [] s % 4 = 3 -> "SS 3"
      [] OTHER -> "JSS 1"

TotalsStudents ==
    [s \in Students |->
        [current_class |-> TotalsClass(s),
         current_section |-> [school_class |-> TotalsClass(s), suffix |-> "A",
                              session |-> "current"],
         is_active |-> TRUE]]

\* a row as saved earlier for a Junior student with every component at its
\* maximum
FullJuniorRow ==
    ResultSave([NewResult EXCEPT !.ca = Marks(10), !.test_1 = Marks(10),
                                 !.test_2 = Marks(10), !.exam = Marks(70)], "Junior")

\* What is posted for one subject: nothing; every field at its maximum; the exam
\* fields alone; every field at its maximum but the exam fields a thousandth
\* above; a field a thousandth below 0.
AllMax ==
    [ total_marks |-> <<Marks(100)>>, test |-> <<Marks(20)>>, homework |-> <<Marks(10)>>,
      classwork |-> <<Marks(10)>>, nursery_primary_exam |-> <<Marks(60)>>,
      ca |-> <<Marks(10)>>, test_1 |-> <<Marks(10)>>, test_2 |-> <<Marks(10)>>,
      exam |-> <<Marks(70)>> ]

ExamOnly ==
    [EmptyForm EXCEPT !.total_marks = <<Marks(50) + 125>>,
                      !.nursery_primary_exam = <<Marks(30) + 250>>,
                      !.exam = <<Marks(35) + 500>>]

ExamOver ==
    [AllMax EXCEPT !.total_marks = <<Marks(100) + 1>>,
                   !.nursery_primary_exam = <<Marks(60) + 1>>,
                   !.exam = <<Marks(70) + 1>>]

BelowZero ==
    [EmptyForm EXCEPT !.total_marks = <<0 - 1>>, !.test = <<0 - 1>>, !.ca = <<0 - 1>>]

TotalsForms == [Subjects -> {EmptyForm, AllMax, ExamOnly, ExamOver, BelowZero}]

InitTotals ==
    /\ req = [r \in Requests |-> IdleRequest]
    /\ lock = FreeLock
    /\ call = NoCall
    /\ ret = NoCall
    /\ student = TotalsStudents
    /\ enrolled = SeedEnrolled
    /\ \E row \in {NewResult, FullJuniorRow} :
          results = Table([k \in Keys |-> IF k[3] = CurrentTerm THEN row ELSE NewResult])
    /\ lastOp = Op("init", 0, NoSection, NoSection, "ok", NoSection, {})
    /\ ops = 0

SubmitTotals ==
    \E st \in Students, form \in TotalsForms : Tick /\ update_result(st, form, "")

SpecTotals == InitTotals /\ [][SubmitTotals]_vars

\* ------------------------------------------- the ranking passes on their own
\* A school state: Student rows, StudentSubject rows and Result rows.
Scenario(stu, enr, res) == [student |-> stu, enrolled |-> enr, results |-> res]

JSS1B == [school_class |-> "JSS 1", suffix |-> "B", session |-> "current"]
JSS2A == [school_class |-> "JSS 2", suffix |-> "A", session |-> "current"]

\* a row graded for a Junior student whose position fields are out of date
StaleRow(s, sub) ==
    [ResultSave([NewResult EXCEPT !.exam = Marks(40 + 5 * s + sub)], "Junior")
        EXCEPT !.subject_position = "9th", !.class_position = "9th",
               !.class_position_gp = "9th"]

StaleResults == Table([k \in Keys |-> StaleRow(k[1], k[2])])

\* JSS 1 students spread over two sections or in none, each enrolled in every
\* subject or in none, all with graded rows in both terms; JSS 2 A stays empty.
EmptyScenarios ==
    { Scenario([s \in Students |->
                   [current_class |-> "JSS 1", current_section |-> place[s],
                    is_active |-> TRUE]],
               {<<s, sub, CurrentTerm>> : s \in with, sub \in Subjects},
               StaleResults) :
        place \in [Students -> {JSS1A, JSS1B, NoSection}], with \in SUBSET Students }

\* Rows of a student who was graded in Primary 5 and is now in JSS 1: a row last
\* saved for the Primary student keeps its absent grade_point beside rows saved
\* since.  Every student is in JSS 1 A and enrolled in every subject.
GradedRows ==
    { [ResultSave([NewResult EXCEPT !.ca = Marks(10), !.exam = Marks(70)], "Junior")
          EXCEPT !.class_position_gp = "9th"],
      [ResultSave([NewResult EXCEPT !.exam = Marks(50)], "Junior")
          EXCEPT !.class_position_gp = "9th"],
      ResultSave([NewResult EXCEPT !.test = Marks(20), !.nursery_primary_exam = Marks(60)],
                 "Primary") }

GpScenarios ==
    { Scenario(SeedStudents, SeedEnrolled,
               Table([k \in Keys |-> IF k[3] = CurrentTerm THEN rows[<<k[1], k[2]>>]
                                     ELSE StaleRow(k[1], k[2])])) :
        rows \in [Students \X Subjects -> GradedRows] }

\* SS 3 A after a promotion round: promote_students has set is_active = False on
\* SS 3 students and left them in their section; a student placed in SS 3 A
\* since is active.  Every student is enrolled in every subject and graded.
SS3A == [school_class |-> "SS 3", suffix |-> "A", session |-> "current"]

SeniorRow(s, sub) ==
    [ResultSave([NewResult EXCEPT !.exam = Marks(40 + 5 * s + sub)], "Senior")
        EXCEPT !.subject_position = "9th", !.class_position = "9th",
               !.class_position_gp = "9th"]

InactiveScenarios ==
    { Scenario([s \in Students |->
                   [current_class |-> "SS 3", current_section |-> SS3A,
                    is_active |-> s \in active]],
               SeedEnrolled,
               Table([k \in Keys |-> SeniorRow(k[1], k[2])])) :
        active \in SUBSET Students }

PassScenarios == EmptyScenarios \cup GpScenarios \cup InactiveScenarios

PassSections == {JSS1A, JSS1B, JSS2A, SS3A, NoSection}

InitPasses ==
    /\ req = [r \in Requests |-> IdleRequest]
    /\ lock = FreeLock
    /\ lastOp = Op("init", 0, NoSection, NoSection, "ok", NoSection, {})
    /\ ops = 0
    /\ \E sc \in PassScenarios :
          /\ student = sc.student
          /\ enrolled = sc.enrolled
          /\ results = sc.results
    /\ \E st \in Students, sec \in PassSections :
          call = [fn |-> "ranking", student |-> st, section |-> sec]
    /\ ret = NoCall

\* update_subject_positions(call.student, ...) and update_class_positions(
\* call.section, ...) applied to the stored rows, each alone and one after the
\* other in both orders
PassesReturn ==
    /\ call.fn = "ranking"
    /\ ret = NoCall
    /\ \E subject \in {update_subject_positions(student, enrolled, results,
                                                 call.student, CurrentTerm)},
          class \in {update_class_positions(student, enrolled, results,
                                             call.section, CurrentTerm)} :
          ret' = [fn |-> call.fn, subject |-> subject, class |-> class,
                  subject_class |-> update_class_positions(student, enrolled, subject,
                                        call.section, CurrentTerm),
                  class_subject |-> update_subject_positions(student, enrolled, class,
                                        call.student, CurrentTerm)]
    /\ UNCHANGED <<student, enrolled, results, lastOp, ops, req, lock, call>>

SpecPasses == InitPasses /\ [][PassesReturn]_vars

\* ------------------------------------------------------ student registration
\* admin_student_management POST: SchoolClass.objects.get(id=class_id),
\* ClassSection.objects.get(id=section_id) if section_id else None, then
\* Student(current_class=school_class, current_section=class_section,
\* is_active=True).save().  The row of the new student.
admin_student_management(class_id, section_id) ==
    [current_class |-> class_id, current_section |-> section_id, is_active |-> TRUE]

\* The posted class is required; the posted section is any ClassSection row or
\* empty.
InitRegister ==
    /\ req = [r \in Requests |-> IdleRequest]
    /\ lock = FreeLock
    /\ lastOp = Op("init", 0, NoSection, NoSection, "ok", NoSection, {})
    /\ ops = 0
    /\ \E sc \in EmptyScenarios :
          /\ student = sc.student
          /\ enrolled = sc.enrolled
          /\ results = sc.results
    /\ \E class_id \in Classes, section_id \in CurrentSections \cup {NoSection} :
          call = [fn |-> "admin_student_management",
                  class |-> class_id, section |-> section_id]
    /\ ret = NoCall

RegisterReturn ==
    /\ call.fn = "admin_student_management"
    /\ ret = NoCall
    /\ ret' = [fn |-> call.fn,
               student |-> admin_student_management(call.class, call.section)]
    /\ UNCHANGED <<student, enrolled, results, lastOp, ops, req, lock, call>>

SpecRegister == InitRegister /\ [][RegisterReturn]_vars

\* ----------------------------------------------------------- properties
\* The rows a ranking pass on section sec reads for subject sub, as students.
GroupOf(stu, enr, res, sec, sub, term) ==
    LET roster == Roster(stu, sec)
    IN IF sub \in SubjectIds(enr, roster, term)
       THEN {s \in roster : res[<<s, sub, term>>].exists}
       ELSE {}

SubjectGroup(sec, sub, term) == GroupOf(student, enrolled, results, sec, sub, term)

\* 1 + the number of members with a strictly greater score.
CompetitionRank(group, score, s) ==
    1 + Cardinality({t \in group : score[t] > score[s]})

RoundedTotal(s, sub, term) == Round2(results[<<s, sub, term>>].total_score, 1)

\* C1: after update_subject_positions has run for a section, every record it
\* ranked holds, as subject_position, the competition rank of its total_score
\* rounded to two decimals within its subject group: 1 + the number of records
\* of the group with a strictly greater rounded score.
C1_SubjectPositionIsCompetitionRank ==
    lastOp.subject_pass # NoSection =>
        \A sub \in Subjects :
            LET group == SubjectGroup(lastOp.subject_pass, sub, lastOp.term)
                score == [t \in group |-> RoundedTotal(t, sub, lastOp.term)]
            IN \A s \in group :
                  results[<<s, sub, lastOp.term>>].subject_position =
                      PositionString(CompetitionRank(group, score, s))

\* A score submission has just ranked a subject whose three totals are 65.004,
\* 65.0 and 50.0: the first two tie at "1st", the third is "3rd".
C1_Witness ==
    /\ lastOp.op = "update_result"
    /\ lastOp.outcome = "updated"
    /\ \E sub \in Subjects :
          \E a, b, c \in SubjectGroup(lastOp.subject_pass, sub, CurrentTerm) :
              /\ results[<<a, sub, CurrentTerm>>].total_score = Marks(65) + 4
              /\ results[<<b, sub, CurrentTerm>>].total_score = Marks(65)
              /\ results[<<c, sub, CurrentTerm>>].total_score = Marks(50)
              /\ results[<<a, sub, CurrentTerm>>].subject_position = "1st"
              /\ results[<<b, sub, CurrentTerm>>].subject_position = "1st"
              /\ results[<<c, sub, CurrentTerm>>].subject_position = "3rd"

\* The records of student s that a class ranking pass on section sec averages.
QualifyingRows(sec, s, term) ==
    {k \in {s} \X Subjects \X {term} :
        /\ s \in SubjectGroup(sec, k[2], term)
        /\ results[k].total_score > 0}

\* The students a class ranking pass on section sec ranks.
RankedStudents(sec, term) ==
    {s \in Roster(student, sec) : QualifyingRows(sec, s, term) # {}}

AvgMarksOf(sec, term) ==
    [s \in RankedStudents(sec, term) |-> AvgMarks(results, QualifyingRows(sec, s, term))]

AvgGpOf(sec, term) ==
    [s \in RankedStudents(sec, term) |-> AvgGp(results, QualifyingRows(sec, s, term))]

\* C2: after update_class_positions has run for a section, every student with a
\* qualifying record holds, on those records, class_position = 1 + the number of
\* ranked students of the section with a strictly greater avg_marks, and (above
\* Primary) class_position_gp = the same rank by avg_gp; so two students equal on
\* both averages hold the same position on both fields.
C2_ClassPositionIsCompetitionRank ==
    \A sec \in lastOp.class_pass :
        LET ranked == RankedStudents(sec, lastOp.term)
            avg_marks == AvgMarksOf(sec, lastOp.term)
            avg_gp == AvgGpOf(sec, lastOp.term)
        IN \A s \in ranked : \A k \in QualifyingRows(sec, s, lastOp.term) :
              /\ results[k].class_position =
                     PositionString(CompetitionRank(ranked, avg_marks, s))
              /\ RanksGp(sec) =>
                     results[k].class_position_gp =
                         PositionString(CompetitionRank(ranked, avg_gp, s))

\* A class pass has just ranked two students whose averages agree on marks and on
\* grade points although their grades in a subject differ, above a third
\* student: both hold "1st" on both fields and the third holds "3rd".
C2_Witness ==
    /\ lastOp.op = "update_result"
    /\ lastOp.outcome = "updated"
    /\ \E sec \in lastOp.class_pass :
          \E a, b, c \in RankedStudents(sec, CurrentTerm) :
              /\ a # b
              /\ AvgMarksOf(sec, CurrentTerm)[a] = AvgMarksOf(sec, CurrentTerm)[b]
              /\ AvgGpOf(sec, CurrentTerm)[a] = AvgGpOf(sec, CurrentTerm)[b]
              /\ AvgMarksOf(sec, CurrentTerm)[c] < AvgMarksOf(sec, CurrentTerm)[a]
              /\ \E sub \in Subjects :
                    /\ <<a, sub, CurrentTerm>> \in QualifyingRows(sec, a, CurrentTerm)
                    /\ <<b, sub, CurrentTerm>> \in QualifyingRows(sec, b, CurrentTerm)
                    /\ results[<<a, sub, CurrentTerm>>].grade #
                           results[<<b, sub, CurrentTerm>>].grade
              /\ \A k \in QualifyingRows(sec, a, CurrentTerm)
                          \cup QualifyingRows(sec, b, CurrentTerm) :
                    /\ results[k].class_position = "1st"
                    /\ results[k].class_position_gp = "1st"
              /\ \A k \in QualifyingRows(sec, c, CurrentTerm) :
                    results[k].class_position = "3rd"


\* C3: a step in which update_subject_positions runs leaves the subject_position
\* of every stray record (a record of a roster student with no enrollment in its
\* subject for the term) as it was, and gives every enrolled student's record the
\* competition rank among the enrolled students' records only.
C3_StrayResultExcluded ==
    [][ (ops' # ops /\ lastOp'.subject_pass # NoSection) =>
          \A sub \in Subjects :
            LET group == GroupOf(student', enrolled', results', lastOp'.subject_pass,
                                 sub, lastOp'.term)
                members == {s \in group : <<s, sub, lastOp'.term>> \in enrolled'}
                score == [t \in group |->
                            Round2(results'[<<t, sub, lastOp'.term>>].total_score, 1)]
            IN /\ \A s \in group \ members :
                     results'[<<s, sub, lastOp'.term>>].subject_position =
                         results[<<s, sub, lastOp'.term>>].subject_position
               /\ \A s \in members :
                     results'[<<s, sub, lastOp'.term>>].subject_position =
                         PositionString(CompetitionRank(members, score, s)) ]_vars

\* C4: every Result row has a StudentSubject enrollment for the same student,
\* subject, session and term.
C4_ResultHasEnrollment ==
    \A k \in Keys : results[k].exists => k \in enrolled

\* The student's Result rows for the current session and term.
CurrentRows(s) == {k \in {s} \X Subjects \X {CurrentTerm} : results[k].exists}

Removed == lastOp.op = "remove_student_from_section" /\ lastOp.outcome = "ok"

\* C5: when remove_student_from_section has removed a student, class_position,
\* class_position_gp and subject_position are blank on all of that student's
\* Result rows for the current session and term.
C5_RemovalBlanksPositions ==
    Removed =>
        \A k \in CurrentRows(lastOp.student) :
            /\ results[k].class_position = ""
            /\ results[k].class_position_gp = ""
            /\ results[k].subject_position = ""

\* C6: when remove_student_from_section has removed a student, the class_position
\* of every remaining ranked member of the old section is the competition rank of
\* its avg_marks among the remaining ranked members only.
C6_RemainingRanksCloseGap ==
    Removed =>
        LET sec == lastOp.old_section
            ranked == RankedStudents(sec, CurrentTerm)
            avg_marks == AvgMarksOf(sec, CurrentTerm)
        IN /\ lastOp.student \notin ranked
           /\ \A s \in ranked : \A k \in QualifyingRows(sec, s, CurrentTerm) :
                 results[k].class_position =
                     PositionString(CompetitionRank(ranked, avg_marks, s))

\* The removed student's average lay strictly between those of the two students
\* who remain (it alone was 2nd): the remaining two now hold "1st" and "2nd".
C6_Witness ==
    /\ Removed
    /\ \E a, b \in RankedStudents(lastOp.old_section, CurrentTerm) :
          LET mine == CurrentRows(lastOp.student)
              avg == AvgMarksOf(lastOp.old_section, CurrentTerm)
          IN /\ RankedStudents(lastOp.old_section, CurrentTerm) = {a, b}
             /\ mine # {}
             /\ avg[b] < AvgMarks(results, mine)
             /\ AvgMarks(results, mine) < avg[a]
             /\ \A k \in CurrentRows(a) : results[k].class_position = "1st"
             /\ \A k \in CurrentRows(b) : results[k].class_position = "2nd"

\* C7: after update_class_positions has run for a section, a roster student whose
\* Result rows for the term all have total_score 0 has a blank class_position on
\* every one of them, and the other students' ranks do not count that student.
C7_ZeroScoreStudentUnranked ==
    \A sec \in lastOp.class_pass :
        LET ranked == RankedStudents(sec, lastOp.term)
            avg_marks == AvgMarksOf(sec, lastOp.term)
            rows(s) == {k \in {s} \X Subjects \X {lastOp.term} : results[k].exists}
        IN /\ \A s \in Roster(student, sec) :
                 (rows(s) # {} /\ \A k \in rows(s) : results[k].total_score = 0) =>
                     /\ s \notin ranked
                     /\ \A k \in rows(s) : results[k].class_position = ""
           /\ \A s \in ranked : \A k \in QualifyingRows(sec, s, lastOp.term) :
                 results[k].class_position =
                     PositionString(CompetitionRank(ranked, avg_marks, s))

\* The Result rows after both ranking passes are run for section sec.
Recomputed(stu, enr, res, sec) ==
    LET roster == Roster(stu, sec)
    IN IF roster = {} THEN res
       ELSE update_class_positions(stu, enr,
                update_subject_positions(stu, enr, res, CHOOSE s \in roster : TRUE,
                                         CurrentTerm),
                sec, CurrentTerm)

\* C8: a step that changes a student's section leaves, for the section the student
\* left and the section the student joined, the stored positions that the ranking
\* recomputation over the new rosters gives.
C8_MembershipChangeRecomputes ==
    [][ \A s \in Students :
          student'[s].current_section # student[s].current_section =>
              \A sec \in {student[s].current_section, student'[s].current_section}
                            \ {NoSection} :
                  Recomputed(student', enrolled', results', sec) = results' ]_vars

\* C10: a score submission rejected for an out-of-range input leaves every Result
\* row as it was.
C10_RejectedSubmissionSavesNothing ==
    [][ (ops' # ops /\ lastOp'.op = "update_result" /\ lastOp'.outcome = "rejected")
            => results' = results ]_vars

Completed(r) == req[r].pc \in {"done", "failed"}

\* C9: once two concurrent score submissions for students of one section have
\* both completed, the stored subject_position and class_position values of the
\* section are the ranks computed from the stored total_scores.
C9_ConcurrentSavesLeaveFinalRanks ==
    (\A r \in Requests : Completed(r)) =>
        Recomputed(student, enrolled, results, JSS1A) = results

\* C11: a score submission that update_result rejects, with a validation error
\* or a format error, runs neither update_subject_positions nor
\* update_class_positions: no subject_position, class_position or
\* class_position_gp changes in that step.
Refused(op) ==
    /\ op.op = "update_result"
    /\ op.outcome \in {"rejected", "invalid format"}

C11_RejectedSubmissionRanksNothing ==
    [][(ops' # ops /\ Refused(lastOp')) =>
          /\ lastOp'.subject_pass = NoSection
          /\ lastOp'.class_pass = {}
          /\ \A k \in Keys :
                /\ results'[k].subject_position = results[k].subject_position
                /\ results'[k].class_position = results[k].class_position
                /\ results'[k].class_position_gp = results[k].class_position_gp]_vars

\* a submission refused for its format after an earlier subject's row was saved:
\* a ranking pass run now would move a position
C11_Witness ==
    /\ lastOp.op = "update_result"
    /\ lastOp.outcome = "invalid format"
    /\ Recomputed(student, enrolled, results, lastOp.section) # results

\* C12: a successful update_result that changed a Result row runs
\* update_subject_positions and then update_class_positions for the student's
\* section, after every row is saved and before it answers: the rows it leaves are
\* the saved rows with the subject pass and then the class pass applied.
WithPositionsOf(res, old) ==
    Table([k \in Keys |->
        [res[k] EXCEPT !.subject_position = old[k].subject_position,
                       !.class_position = old[k].class_position,
                       !.class_position_gp = old[k].class_position_gp]])

C12_SavedScoresAreRanked ==
    [][(ops' # ops /\ lastOp'.op = "update_result" /\ lastOp'.outcome = "updated") =>
          /\ lastOp'.subject_pass = student[lastOp'.student].current_section
          /\ lastOp'.class_pass = {student[lastOp'.student].current_section}
          /\ \E saved \in {WithPositionsOf(results', results)} :
                /\ saved # results
                /\ \E ranked \in {update_subject_positions(student, enrolled, saved,
                                                            lastOp'.student, CurrentTerm)} :
                      results' = update_class_positions(student, enrolled, ranked,
                                     student[lastOp'.student].current_section,
                                     CurrentTerm)]_vars

\* a saved submission put its student alone at the head of a subject and of the
\* class
C12_Witness ==
    /\ ops > 0
    /\ lastOp.op = "update_result"
    /\ lastOp.outcome = "updated"
    /\ \E sub \in Subjects :
          LET row == results[<<lastOp.student, sub, CurrentTerm>>]
          IN /\ row.exam = Marks(65) + 4
             /\ row.subject_position = "1st"
             /\ row.class_position = "1st"
             /\ \A o \in Students \ {lastOp.student} :
                   /\ results[<<o, sub, CurrentTerm>>].subject_position # "1st"
                   /\ results[<<o, sub, CurrentTerm>>].class_position # "1st"

\* C13: assign_student_to_section, when it places the student, runs the subject
\* pass for the section joined, which covers every subject the student is
\* enrolled in, then the class pass for that section and, when the student came
\* from another section, the class pass for the section left.
Placed(op) ==
    /\ op.op = "assign_student_to_section"
    /\ op.outcome = "ok"

C14_RankingIsIdempotent ==
    /\ \A st \in Students :
          \E once \in {update_subject_positions(student, enrolled, results, st,
                                                 CurrentTerm)} :
              update_subject_positions(student, enrolled, once, st, CurrentTerm) = once
    /\ \A sec \in CurrentSections :
          \E once \in {update_class_positions(student, enrolled, results, sec,
                                               CurrentTerm)} :
              update_class_positions(student, enrolled, once, sec, CurrentTerm) = once

\* stored positions are stale for both passes: the first run of each changes
\* rows of a section of several students, the second changes none
C14_Witness ==
    /\ \E st \in Students :
          LET once == update_subject_positions(student, enrolled, results, st,
                                               CurrentTerm)
          IN /\ Cardinality(Roster(student, student[st].current_section)) > 1
             /\ once # results
             /\ update_subject_positions(student, enrolled, once, st, CurrentTerm) = once
    /\ \E sec \in CurrentSections :
          LET once == update_class_positions(student, enrolled, results, sec,
                                             CurrentTerm)
          IN /\ Cardinality(Roster(student, sec)) > 1
             /\ once # results
             /\ update_class_positions(student, enrolled, once, sec, CurrentTerm) = once

C16_GpRankOnlyAbovePrimary ==
    \A sec \in lastOp.class_pass :
        IF RanksGp(sec)
        THEN \A s \in RankedStudents(sec, lastOp.term) :
                \A k \in QualifyingRows(sec, s, lastOp.term) :
                    /\ results[k].class_position # ""
                    /\ results[k].class_position_gp # ""
        ELSE \A s \in Roster(student, sec) :
                \A k \in CurrentRows(s) : results[k].class_position_gp = ""

\* C17: for every rank n >= 1 the position string is n followed by the English
\* ordinal suffix: "th" when n % 100 is in 11..20, otherwise "st", "nd", "rd" for
\* a last digit 1, 2, 3 and "th" for any other last digit; get_ordinal_suffix and
\* the suffix expression of the ranking passes agree on every n.
EnglishSuffix(n) ==
    IF n % 100 \in 11..20 THEN "th"
    ELSE CASE n % 10 = 1 -> "st"
           [] n % 10 = 2 -> "nd"
           [] n % 10 = 3 -> "rd"
           [] OTHER -> "th"

C17_PositionIsEnglishOrdinal ==
    ret.fn = "get_ordinal_suffix" =>
        /\ ret.suffix = EnglishSuffix(call.n)
        /\ ret.position = ToString(call.n) \o EnglishSuffix(call.n)
        /\ ret.position = ToString(call.n) \o ret.suffix
        /\ call.n = 11 => ret.position = "11th"
        /\ call.n = 12 => ret.position = "12th"
        /\ call.n = 21 => ret.position = "21st"
        /\ call.n = 102 => ret.position = "102nd"
        /\ call.n = 111 => ret.position = "111th"

\* rank 111: the last digit is 1 but the suffix is "th"
C17_Witness ==
    /\ ret.fn = "get_ordinal_suffix"
    /\ call.n = 111
    /\ ret.position = "111th"
    /\ ret.suffix = "th"

\* The band of a table, given as <<lower edge, grade, grade point in tenths>> rows
\* from the top band down, that a total falls in.
BandOf(bands, total) ==
    bands[CHOOSE i \in 1..Len(bands) :
              /\ total >= Marks(bands[i][1])
              /\ \A j \in 1..(i - 1) : total < Marks(bands[j][1])]

Saved(section) == ret.fn = "Result.save" /\ call.section = section

\* C18: Result.save for a Senior student gives >=90 A1/5.0, >=85 B2/4.5,
\* >=80 B3/4.0, >=70 C4/3.5, >=60 C5/3.0, >=50 C6/2.5, >=45 D7/2.0, >=40 E8/1.5,
\* otherwise F9/1.0; a total of exactly 90 gives A1 and a total in [85, 90) B2.
SeniorBands ==
    << <<90, "A1", 50>>, <<85, "B2", 45>>, <<80, "B3", 40>>, <<70, "C4", 35>>,
       <<60, "C5", 30>>, <<50, "C6", 25>>, <<45, "D7", 20>>, <<40, "E8", 15>>,
       <<0, "F9", 10>> >>

C18_SeniorBands ==
    Saved("Senior") =>
        LET row == ret.row
        IN /\ row.total_score = call.row.ca + call.row.test_1 + call.row.test_2
                                     + call.row.exam
           /\ row.grade = BandOf(SeniorBands, row.total_score)[2]
           /\ row.grade_point = BandOf(SeniorBands, row.total_score)[3]
           /\ row.total_score = Marks(90) => row.grade = "A1"
           /\ (Marks(85) <= row.total_score /\ row.total_score < Marks(90)) =>
                  row.grade = "B2"

\* a Senior total of exactly 90 was graded A1 with 5.0
C18_Witness ==
    /\ Saved("Senior")
    /\ ret.row.total_score = Marks(90)
    /\ ret.row.grade = "A1"
    /\ ret.row.grade_point = 50

\* C19: Result.save for a Junior student gives >=90 A+/4.0, >=80 A/3.5, >=70 B/3.0,
\* >=60 C/2.5, >=50 D/2.0, >=40 E/1.5, otherwise F/1.0; a total of exactly 40
\* gives E and any total below 40 gives F.
JuniorBands ==
    << <<90, "A+", 40>>, <<80, "A", 35>>, <<70, "B", 30>>, <<60, "C", 25>>,
       <<50, "D", 20>>, <<40, "E", 15>>, <<0, "F", 10>> >>

C19_JuniorBands ==
    Saved("Junior") =>
        LET row == ret.row
        IN /\ row.total_score = call.row.ca + call.row.test_1 + call.row.test_2
                                     + call.row.exam
           /\ row.grade = BandOf(JuniorBands, row.total_score)[2]
           /\ row.grade_point = BandOf(JuniorBands, row.total_score)[3]
           /\ row.total_score = Marks(40) => row.grade = "E"
           /\ row.total_score < Marks(40) => row.grade = "F"

\* a Junior total of exactly 40 was graded E with 1.5
C19_Witness ==
    /\ Saved("Junior")
    /\ ret.row.total_score = Marks(40)
    /\ ret.row.grade = "E"
    /\ ret.row.grade_point = 15

\* C20: Result.save for a Nursery and for a Primary student uses one and the same
\* band table (>=95 A+, >=90 A, >=85 B+, >=80 B, >=70 C+, >=65 C, >=60 D, >=50 E,
\* otherwise F9) and always leaves grade_point absent.
NurseryPrimaryBands ==
    << <<95, "A+">>, <<90, "A">>, <<85, "B+">>, <<80, "B">>, <<70, "C+">>,
       <<65, "C">>, <<60, "D">>, <<50, "E">>, <<0, "F9">> >>

C20_NurseryPrimaryBands ==
    (Saved("Nursery") \/ Saved("Primary")) =>
        LET row == ret.row
        IN /\ row.total_score =
                  IF call.section = "Nursery" THEN call.row.total_marks
                  ELSE call.row.test + call.row.homework + call.row.classwork
                           + call.row.nursery_primary_exam
           /\ row.grade = BandOf(NurseryPrimaryBands, row.total_score)[2]
           /\ row.grade_point = NoGradePoint
           /\ ResultSave(RowWith("Nursery", row.total_score, FALSE), "Nursery").grade
                  = ResultSave(RowWith("Primary", row.total_score, FALSE), "Primary").grade

\* a row last graded as Junior (grade point 2.0) was saved for a Primary student
\* with a total just under 50: F9 and no grade point
C20_Witness ==
    /\ Saved("Primary")
    /\ call.row.grade_point = 20
    /\ ret.row.total_score = Marks(50) - 1
    /\ ret.row.grade = "F9"
    /\ ret.row.grade_point = NoGradePoint

\* C21: the total_score of every Result row that update_result saves is the sum
\* of the raw inputs of the student's age section (Nursery: total_marks; Primary:
\* test + homework + classwork + exam; Junior and Senior: ca + test_1 + test_2 +
\* exam), an input never given counting 0, and every stored total_score lies in
\* 0..100.
SectionSum(row, section) ==
    CASE section = "Nursery" -> row.total_marks
      [] section = "Primary" ->
            row.test + row.homework + row.classwork + row.nursery_primary_exam
      [] OTHER -> row.ca + row.test_1 + row.test_2 + row.exam

SavedIn(old, new) ==
    [new EXCEPT !.subject_position = old.subject_position,
                !.class_position = old.class_position,
                !.class_position_gp = old.class_position_gp] # old

Ranked == ret.fn = "ranking"

NoEnrollment(sec) ==
    \A s \in Roster(student, sec), sub \in Subjects : <<s, sub, CurrentTerm>> \notin enrolled

C22_EmptyPassWritesNothing ==
    Ranked =>
        /\ Roster(student, call.section) = {} => ret.class = results
        /\ call.section = NoSection => ret.class = results
        /\ NoEnrollment(call.section) => ret.class = results
        /\ student[call.student].current_section = NoSection => ret.subject = results
        /\ NoEnrollment(student[call.student].current_section) => ret.subject = results

\* a section of two students with graded rows and no enrollment: both passes
\* leave the rows, out-of-date positions included, as they are
C22_Witness ==
    /\ Ranked
    /\ call.section = student[call.student].current_section
    /\ call.section # NoSection
    /\ Cardinality(Roster(student, call.section)) = 2
    /\ NoEnrollment(call.section)
    /\ \A s \in Roster(student, call.section), sub \in Subjects :
          results[<<s, sub, CurrentTerm>>].total_score > 0
    /\ ret.subject = results
    /\ ret.class = results

\* C23: after update_class_positions has run for a section, every Result row of
\* a ranked student for the term holds one and the same class_position, rows
\* whose total_score is 0 and rows graded earlier included.
C23_OneClassPositionPerStudent ==
    \A sec \in lastOp.class_pass :
        \A s \in RankedStudents(sec, lastOp.term) :
            \A k, q \in {s} \X Subjects \X {lastOp.term} :
                (results[k].exists /\ results[q].exists) =>
                    results[k].class_position = results[q].class_position

\* C24: update_class_positions averages, for each student, only the Result rows
\* with total_score > 0 of subjects this student is enrolled in for the term: a
\* row of a subject in which only other students of the roster are enrolled
\* enters neither avg_marks nor avg_gp, so the positions written are the ranks
\* by the averages over the student's own enrolled subjects.
OwnRows(s, term) ==
    {k \in {s} \X Subjects \X {term} :
        /\ k \in enrolled
        /\ results[k].exists
        /\ results[k].total_score > 0}

C24_AverageOverOwnSubjects ==
    \A sec \in lastOp.class_pass :
        LET ranked == {s \in Roster(student, sec) : OwnRows(s, lastOp.term) # {}}
            avg_marks == [s \in ranked |-> AvgMarks(results, OwnRows(s, lastOp.term))]
            avg_gp == [s \in ranked |-> AvgGp(results, OwnRows(s, lastOp.term))]
        IN \A s \in ranked : \A k \in OwnRows(s, lastOp.term) :
              /\ results[k].class_position =
                     PositionString(CompetitionRank(ranked, avg_marks, s))
              /\ RanksGp(sec) =>
                     results[k].class_position_gp =
                         PositionString(CompetitionRank(ranked, avg_gp, s))

\* C25: in update_class_positions for a Junior or Senior section a student's
\* avg_gp is the sum of the present grade_points divided by the number of
\* qualifying records that have a grade_point, and 0.0 when none has one; the
\* class_position_gp written is the rank by that average.
PresentGp(sec, s) ==
    {k \in QualifyingRows(sec, s, CurrentTerm) : results[k].grade_point # NoGradePoint}

GpSum(sec, s) ==
    SumOver(PresentGp(sec, s), [k \in PresentGp(sec, s) |-> results[k].grade_point])

GpCount(sec, s) ==
    IF PresentGp(sec, s) = {} THEN 1 ELSE Cardinality(PresentGp(sec, s))

\* the mean over the present grade_points of t is greater than that of s
MeanGpGreater(sec, t, s) ==
    GpSum(sec, t) * GpCount(sec, s) > GpSum(sec, s) * GpCount(sec, t)

C25_AvgGpOverPresentPoints ==
    (Ranked /\ call.section # NoSection /\ RanksGp(call.section)) =>
        LET sec == call.section
            ranked == RankedStudents(sec, CurrentTerm)
        IN \A s \in ranked : \A k \in QualifyingRows(sec, s, CurrentTerm) :
              ret.class[k].class_position_gp =
                  PositionString(1 + Cardinality({t \in ranked :
                                                     MeanGpGreater(sec, t, s)}))

\* C26: the two ranking passes commute: from any state, running
\* update_subject_positions and then update_class_positions leaves the same Result
\* rows as running update_class_positions and then update_subject_positions.
C26_PassesCommute ==
    Ranked => ret.subject_class = ret.class_subject

\* both passes change rows of the student's section, and the two orders agree
C26_Witness ==
    /\ Ranked
    /\ call.section = student[call.student].current_section
    /\ Cardinality(Roster(student, call.section)) > 1
    /\ ret.subject # results
    /\ ret.class # results
    /\ ret.subject_class # ret.subject
    /\ ret.subject_class # ret.class
    /\ ret.subject_class = ret.class_subject

\* C27: the roster of both ranking passes is the set of active students of the
\* section: a student with is_active = false who is still assigned to the section
\* is given no rank by either pass, and the active members are ranked among
\* themselves.
ActiveRoster(sec) == {s \in Roster(student, sec) : student[s].is_active}

C27_InactiveStudentsUnranked ==
    Ranked =>
        /\ LET sec == call.section
               ranked == RankedStudents(sec, CurrentTerm) \cap ActiveRoster(sec)
               avg_marks == [s \in ranked |-> AvgMarksOf(sec, CurrentTerm)[s]]
           IN sec # NoSection =>
              \A s \in Roster(student, sec) : \A k \in CurrentRows(s) :
                 IF s \in ranked
                 THEN k \in QualifyingRows(sec, s, CurrentTerm) =>
                          ret.class[k].class_position =
                              PositionString(CompetitionRank(ranked, avg_marks, s))
                 ELSE s \notin ActiveRoster(sec) =>
                          /\ ret.class[k].class_position = results[k].class_position
                          /\ ret.class[k].class_position_gp = results[k].class_position_gp
        /\ LET sec == student[call.student].current_section
           IN sec # NoSection => \A sub \in Subjects :
                 LET group == SubjectGroup(sec, sub, CurrentTerm) \cap ActiveRoster(sec)
                     score == [t \in group |-> RoundedTotal(t, sub, CurrentTerm)]
                 IN \A s \in SubjectGroup(sec, sub, CurrentTerm) :
                       ret.subject[<<s, sub, CurrentTerm>>].subject_position =
                           IF s \in group
                           THEN PositionString(CompetitionRank(group, score, s))
                           ELSE results[<<s, sub, CurrentTerm>>].subject_position

\* C28: when remove_student_from_section has completed, the subject_position of
\* every remaining member's row in the old section is the competition rank of its
\* rounded total among the remaining members' rows for the same subject.
C28_RemovalReranksSubjects ==
    Removed =>
        LET sec == lastOp.old_section
        IN \A sub \in Subjects :
              LET group == SubjectGroup(sec, sub, CurrentTerm)
                  score == [t \in group |-> RoundedTotal(t, sub, CurrentTerm)]
              IN \A s \in group :
                    results[<<s, sub, CurrentTerm>>].subject_position =
                        PositionString(CompetitionRank(group, score, s))

\* C29: the ranking passes change position fields only: the subject pass leaves
\* every field other than subject_position unchanged, the class pass leaves every
\* field other than class_position and class_position_gp unchanged, and neither
\* changes a row of a student outside the section or of another term.
C29_PassesWritePositionsOnly ==
    Ranked =>
        \A k \in Keys :
            /\ [ret.subject[k] EXCEPT
                    !.subject_position = results[k].subject_position] = results[k]
            /\ [ret.class[k] EXCEPT
                    !.class_position = results[k].class_position,
                    !.class_position_gp = results[k].class_position_gp] = results[k]
            /\ (\/ student[k[1]].current_section
                        # student[call.student].current_section
                \/ k[3] # CurrentTerm)
                    => ret.subject[k] = results[k]
            /\ (\/ student[k[1]].current_section # call.section
                \/ k[3] # CurrentTerm)
                    => ret.class[k] = results[k]

\* Both passes wrote a row of the section while a graded row of a student outside
\* it and a row of an earlier term were in the table.
C29_Witness ==
    /\ Ranked
    /\ call.section = student[call.student].current_section
    /\ \E k \in Keys : ret.subject[k].subject_position # results[k].subject_position
    /\ \E k \in Keys : ret.class[k].class_position # results[k].class_position
    /\ \E k \in Keys : /\ results[k].exists
                        /\ results[k].total_score > 0
                        /\ k[3] = CurrentTerm
                        /\ student[k[1]].current_section \notin {call.section, NoSection}
    /\ \E k \in Keys : results[k].exists /\ k[3] # CurrentTerm

\* C30: in every reachable state a student who has a current_section has
\* current_class equal to that section's school_class; this holds for the rows
\* written by student registration, assign_student_to_section,
\* remove_student_from_section, admin update_student and promote_students.
SectionOfClass(row) ==
    row.current_section # NoSection =>
        row.current_class = row.current_section.school_class

C30_SectionBelongsToClass ==
    /\ \A s \in Students : SectionOfClass(student[s])
    /\ ret.fn = "admin_student_management" => SectionOfClass(ret.student)

====
